---------------------------- MODULE Spec2Model ----------------------------
(***************************************************************************)
(* The quiz server of src/server.js (lines 1-392, the current variant) as  *)
(* a state machine: the room table, the per-question intervals, and one    *)
(* action per socket event handler and per timer callback.                 *)
(***************************************************************************)
EXTENDS Integers, Sequences, FiniteSets, Bags, TLC

---------------------------------------------------------------------------
(* Bounds of the model.                                                    *)

NumCodes == 1          \* distinct values generateRoomCode may return
MaxSockets == 2        \* transport connections (socket.id values)
MaxPlayers == 2        \* stable player ids
MaxNames == 2          \* display names
MaxQuestions == 2      \* longest quiz
MaxTimers == 2         \* interval handles that may be live at once
MaxOverrun == 0        \* firings an unreachable interval is followed past its first expiry
MaxPastEnd == 1        \* next_question steps followed past the last question
MaxScore == 2000       \* |score| up to which submissions are followed
MaxStreak == 2         \* streak up to which submissions are followed
MaxReported == 30      \* |timeRemaining| reported, scoring specification
MaxLimit == 24         \* largest timeLimit, scoring specification
MaxClock == 1          \* latest reading of Date.now(), joining specification
MaxRanked == 6         \* most players in a room, standings specification
MaxSwept == 2          \* room codes, cleanup specification
MaxElapsed == 3        \* seconds followed while a player reconnects
MaxSeconds == 2        \* seconds followed one by one, cleanup specification

(* Program constants.                                                      *)

DefaultTimeLimit == 20
BasePoints == 600
BonusPoints == 400
TopN == 5
RoomInactivityTimeout == 7200000  \* ROOM_INACTIVITY_TIMEOUT, 2 * 60 * 60 * 1000
TickPeriod == 1000                \* the delay of the question interval
MsPerSecond == 1000

Codes == 1..NumCodes
Sockets == 1..MaxSockets
PlayerIds == 1..MaxPlayers
Names == 1..MaxNames
Handles == 1..MaxTimers
HostTokens == {101}
Credentials == HostTokens \cup PlayerIds
SessionTypes == {"HOST", "PLAYER", "OTHER"}
AnswerIndexes == {0, 1}
ReportedTimes == {3}
NoTimer == 0

VARIABLES
    rooms,      \* the room table: room code -> room object
    timers,     \* the live intervals of the rooms in the table, by handle
    orphans,    \* the live intervals of room objects no longer in the table
    emitted,    \* the messages the last handler sent, in order
    now,        \* Date.now(), in milliseconds
    crashed,    \* an exception escaped a handler or a timer callback
    accepted,   \* history: per room, the submissions accepted for its question
    ignored,    \* history: the kind of event the last step dropped silently
    scoring     \* the scoring formula on its own: input and output

vars == <<rooms, timers, orphans, emitted, now, crashed, accepted, ignored, scoring>>

---------------------------------------------------------------------------
(* Helpers.                                                                *)

Min(a, b) == IF a < b THEN a ELSE b

\* Math.round of the rational n / d, d > 0: the nearest integer, halves up.
Round(n, d) == (2 * n + d) \div (2 * d)

Null == [null |-> TRUE]

ToSocket(s) == [kind |-> "socket", id |-> s]
ToRoom(c) == [kind |-> "room", id |-> c]
Msg(to, ev, data) == [to |-> to, ev |-> ev, data |-> data]

\* The quiz content of a given length: question k (0-based) has answer key
\* k % 2, two options and a time limit of 2 seconds.
QuestionAt(k) ==
    [correctAnswer |-> k % 2, timeLimit |-> 2, options |-> 2]
QuizOfLength(n) == [k \in 1..n |-> QuestionAt(k - 1)]
Quizzes == {QuizOfLength(MaxQuestions)}

\* question.timeLimit || 20
TimeLimitOf(question) ==
    IF question.timeLimit = 0 THEN DefaultTimeLimit ELSE question.timeLimit

\* room.quiz.questions[room.currentQuestionIndex]; the index is 0-based.
HasQuestion(room) == room.currentQuestionIndex < Len(room.quiz)
CurrentQuestion(room) == room.quiz[room.currentQuestionIndex + 1]

\* room.players, an object keyed by player id: its entries in insertion
\* order, which is the order of Object.values.
PlayerPos(room, id) ==
    IF \E i \in 1..Len(room.players) : room.players[i].id = id
    THEN CHOOSE i \in 1..Len(room.players) : room.players[i].id = id
    ELSE 0
HasPlayer(room, id) == PlayerPos(room, id) # 0
PlayerOf(room, id) == room.players[PlayerPos(room, id)]

NewPlayer(id, s, name) ==
    [id |-> id, socketId |-> s, name |-> name, score |-> 0, streak |-> 0,
     lastAnswerTime |-> 0, hasAnsweredThisRound |-> FALSE]

\* room.players[playerId] = {...}: replaces the entry of a known id in
\* place, appends the entry of a new one.
PutPlayer(room, p) ==
    IF HasPlayer(room, p.id)
    THEN [room EXCEPT !.players[PlayerPos(room, p.id)] = p]
    ELSE [room EXCEPT !.players = Append(@, p)]

\* Object.values(room.players).find(p => p.name === playerName)
NameHolders(room, name) ==
    {i \in 1..Len(room.players) : room.players[i].name = name}
FirstNameHolder(room, name) ==
    room.players[CHOOSE i \in NameHolders(room, name) :
                     \A j \in NameHolders(room, name) : i <= j]

\* touchRoom
TouchRoom(room) == [room EXCEPT !.lastActivity = now]

\* clearInterval(h): a handle that is not live is ignored.
ClearInterval(tm, h) == [k \in DOMAIN tm \ {h} |-> tm[k]]

\* A cleared handle is never live again, so clearInterval of it does what
\* clearInterval(null) does: a field whose handle has been cleared is
\* written as NoTimer.
Cleared(room) == [room EXCEPT !.timer = NoTimer]

\* An interval's callback closes over roomCode and over the room object,
\* of which it reads and writes timeRemaining only; sendQuestion sets that
\* field right before it installs the interval, and nothing else uses it.
\* The counter is kept with the interval. When the table entry of a code is
\* deleted or replaced, no handle of the old object's intervals is left in
\* the table: they go on firing as orphans, and nothing can clear them.
TimersOf(tm, c) == {k \in DOMAIN tm : tm[k].code = c}
Kept(tm, c) == [k \in DOMAIN tm \ TimersOf(tm, c) |-> tm[k]]
BagOf(tm, ks) ==
    [o \in {tm[k] : k \in ks} |-> Cardinality({k \in ks : tm[k] = o})]
Orphaned(tm, orph, c) == orph (+) BagOf(tm, TimersOf(tm, c))

LiveCount(tm, orph) == Cardinality(DOMAIN tm) + BagCardinality(orph)

\* A fresh handle: setInterval never returns a handle that is live or that
\* a room still holds, the handle the caller has just cleared included.
FreeHandles(tm, rms) ==
    {h \in Handles :
        /\ h \notin DOMAIN tm
        /\ \A d \in DOMAIN rms : rms[d].timer # h}
NewHandle(tm, rms) ==
    CHOOSE h \in FreeHandles(tm, rms) : \A g \in FreeHandles(tm, rms) : h <= g

NoHistory == [once |-> {}, again |-> {}]
Idle == [phase |-> "idle", timeRemaining |-> 0, timeLimit |-> 0, points |-> 0]

---------------------------------------------------------------------------
(* Scoring (submit_answer).                                                *)

\* A faulty scoring that trusts the reported time.
PointsUnclamped(question, timeRemaining) ==
    Round(BasePoints * TimeLimitOf(question) + BonusPoints * timeRemaining,
          TimeLimitOf(question))

\* Math.round(600 + 400 * (Math.min(timeRemaining, timeLimit) / timeLimit))
PointsFor(question, timeRemaining) ==
    LET timeLimit == TimeLimitOf(question)
        safeTime == Min(timeRemaining, timeLimit)
    IN  Round(BasePoints * timeLimit + BonusPoints * safeTime, timeLimit)

---------------------------------------------------------------------------
(* Initial state: the process has started, no room exists.                 *)

Started ==
    /\ rooms = << >>
    /\ timers = << >>
    /\ orphans = EmptyBag
    /\ emitted = << >>
    /\ now = 0
    /\ crashed = FALSE
    /\ accepted = << >>
    /\ ignored = "none"

Init == Started /\ scoring = Idle

\* A handler that returns without an effect and without a message.
Ignored(kind) ==
    /\ UNCHANGED <<rooms, timers, accepted>>
    /\ emitted' = << >>
    /\ ignored' = kind

Handled == ignored' = "none"

NewRoom(s, quiz, token) ==
    [hostId |-> s, hostToken |-> token, gameState |-> "LOBBY",
     players |-> << >>, quiz |-> quiz, currentQuestionIndex |-> 0,
     timer |-> NoTimer, answersReceived |-> 0, leaderboard |-> << >>,
     lastActivity |-> now, questionStartTime |-> -1]

\* create_room: the code is whatever generateRoomCode returns; an entry
\* already stored under that code is replaced.
CreateRoom(s, quiz, c, token) ==
    /\ ~crashed
    /\ rooms' = (c :> NewRoom(s, quiz, token)) @@ rooms
    /\ timers' = Kept(timers, c)
    /\ orphans' = Orphaned(timers, orphans, c)
    /\ emitted' = << Msg(ToSocket(s), "create_room:ack",
                         [roomCode |-> c, hostToken |-> token]) >>
    /\ accepted' = (c :> NoHistory) @@ accepted
    /\ Handled
    /\ UNCHANGED <<now, crashed, scoring>>

JoinError(s, text) == << Msg(ToSocket(s), "join_room:ack", [error |-> text]) >>

\* A faulty join that never looks at the names in the room.
NameNeverTaken(room, name, id) == FALSE

\* join_room: if (existingPlayer && existingPlayer.id !== playerId)
NameTaken(room, name, id) ==
    /\ NameHolders(room, name) # {}
    /\ FirstNameHolder(room, name).id # id

\* A faulty check that turns every join away once the game has started.
InProgressForAll(room, id) == room.gameState # "LOBBY"

\* join_room: if (room.gameState !== 'LOBBY' && !room.players[playerId])
InProgress(room, id) == room.gameState # "LOBBY" /\ ~HasPlayer(room, id)

\* A faulty rejection that has refreshed the room's activity first.
JoinRejectedTouching(s, c, text) ==
    /\ emitted' = JoinError(s, text)
    /\ rooms' = [d \in DOMAIN rooms |->
                     IF d = c THEN TouchRoom(rooms[d]) ELSE rooms[d]]

\* join_room: return callback({ error: text })
JoinRejected(s, c, text) ==
    /\ emitted' = JoinError(s, text)
    /\ UNCHANGED rooms

\* A faulty join that announces the roster to the whole room.
JoinedEmitsToRoom(s, c, joined) ==
    << Msg(ToRoom(c), "player_joined", [players |-> joined.players]),
       Msg(ToSocket(s), "join_room:ack", [success |-> TRUE]) >>

\* join_room: io.to(room.hostId).emit('player_joined', ...), then the
\* acknowledgment
JoinedEmits(s, c, joined) ==
    << Msg(ToSocket(joined.hostId), "player_joined",
           [players |-> joined.players]),
       Msg(ToSocket(s), "join_room:ack", [success |-> TRUE]) >>

\* join_room
JoinRoom(s, c, name, id) ==
    /\ ~crashed
    /\ Handled
    /\ UNCHANGED <<timers, orphans, now, crashed, accepted, scoring>>
    /\ IF c \notin DOMAIN rooms
       THEN JoinRejected(s, c, "Room not found")
       ELSE LET room == rooms[c] IN
            IF InProgress(room, id)
            THEN JoinRejected(s, c, "Game in progress")
            ELSE IF NameTaken(room, name, id)
            THEN JoinRejected(s, c, "Name taken")
            ELSE LET joined == TouchRoom(PutPlayer(room, NewPlayer(id, s, name))) IN
                 /\ rooms' = [rooms EXCEPT ![c] = joined]
                 /\ emitted' = JoinedEmits(s, c, joined)

\* A faulty leaderboard that leaves the players in the order they joined.
RosterOrder(room) == [k \in 1..Len(room.players) |-> room.players[k].id]

\* calculateFullLeaderboard: Object.values(room.players) sorted by score,
\* highest first; Array.prototype.sort is stable, so equal scores keep their
\* insertion order. The result is given by the ids of the players.
Before(players, i, j) ==
    \/ players[i].score > players[j].score
    \/ players[i].score = players[j].score /\ i < j
RankIn(players, i) ==
    1 + Cardinality({j \in 1..Len(players) : Before(players, j, i)})
CalculateFullLeaderboard(room) ==
    [k \in 1..Len(room.players) |->
        room.players[CHOOSE i \in 1..Len(room.players) :
                         RankIn(room.players, i) = k].id]

\* slice(0, 5)
Slice(seq, n) == SubSeq(seq, 1, Min(n, Len(seq)))

\* The stored leaderboard holds the player objects; it is sent as the
\* entries of those ids.
BoardView(room, board) ==
    [k \in 1..Len(board) |->
        IF HasPlayer(room, board[k])
        THEN [id |-> board[k], name |-> PlayerOf(room, board[k]).name,
              score |-> PlayerOf(room, board[k]).score]
        ELSE Null]

\* gameState as sent in session_restored
SentGameState(room) == IF room.gameState = "FINISHED" THEN "OVER" ELSE room.gameState

\* check_session, host branch: the session_restored payload
HostSnapshot(room, c) ==
    [role |-> "HOST", roomCode |-> c, gameState |-> SentGameState(room),
     players |-> room.players,
     question |-> IF HasQuestion(room)
                  THEN [correctAnswer |-> CurrentQuestion(room).correctAnswer,
                        options |-> CurrentQuestion(room).options,
                        timeLimit |-> CurrentQuestion(room).timeLimit]
                  ELSE Null,
     stats |-> [answersReceived |-> room.answersReceived,
                totalPlayers |-> Len(room.players)],
     leaderboard |-> BoardView(room, room.leaderboard)]

\* A faulty snapshot that sends the question's original duration.
RemainingTimeOriginal(room) == TimeLimitOf(CurrentQuestion(room))

\* check_session, player branch: the remaining time of the running question
RemainingTime(room) ==
    LET elapsed == (now - room.questionStartTime) \div MsPerSecond
        left == TimeLimitOf(CurrentQuestion(room)) - elapsed
    IN  IF left < 0 THEN 0 ELSE left

\* A faulty player snapshot that copies the room's token into the payload.
PlayerSnapshotWithToken(room, c, player) ==
    [role |-> "PLAYER", roomCode |-> c, gameState |-> SentGameState(room),
     playerName |-> player.name, score |-> player.score,
     hostToken |-> room.hostToken,
     currentQuestion |-> Null]

\* check_session, player branch: the session_restored payload
PlayerSnapshot(room, c, player) ==
    [role |-> "PLAYER", roomCode |-> c, gameState |-> SentGameState(room),
     playerName |-> player.name, score |-> player.score,
     currentQuestion |->
        IF room.gameState \in {"QUESTION", "ANSWERING"}
        THEN [options |-> CurrentQuestion(room).options,
              questionIndex |-> room.currentQuestionIndex + 1,
              optionsCount |-> CurrentQuestion(room).options,
              timeLimit |-> RemainingTime(room),
              startTime |-> room.questionStartTime]
        ELSE Null]

Invalid(s) == << Msg(ToSocket(s), "session_invalid", Null) >>

\* A faulty host reconnect that also restarts the round's tally.
HostReboundCounting(room, s) ==
    TouchRoom([room EXCEPT !.hostId = s, !.answersReceived = 0])

\* check_session, host branch with the right token: the room after it
HostRebound(room, s) == TouchRoom([room EXCEPT !.hostId = s])

\* check_session, player branch with a known id: the room after it
PlayerRebound(room, s, id) ==
    TouchRoom([room EXCEPT !.players[PlayerPos(room, id)].socketId = s])

\* A faulty host check that takes any credential for the token.
AnyToken(room, id) == TRUE

\* check_session, host branch: if (room.hostToken === id)
TokenMatches(room, id) == room.hostToken = id

\* check_session, a branch that answers and leaves the table alone
Refused(msgs) ==
    /\ Handled
    /\ UNCHANGED <<timers, accepted>>
    /\ emitted' = msgs
    /\ UNCHANGED rooms

\* check_session, a branch that rebinds a connection and answers
Restored(c, room, msgs) ==
    /\ Handled
    /\ UNCHANGED <<timers, accepted>>
    /\ rooms' = [rooms EXCEPT ![c] = room]
    /\ emitted' = msgs

\* check_session
CheckSession(s, c, type, id) ==
    /\ ~crashed
    /\ UNCHANGED <<orphans, now, crashed, scoring>>
    /\ IF c \notin DOMAIN rooms
       THEN Refused(Invalid(s))
       ELSE LET room == rooms[c] IN
            IF type = "HOST"
            THEN IF TokenMatches(room, id)
                 THEN Restored(c, HostRebound(room, s),
                               << Msg(ToSocket(s), "session_restored",
                                      HostSnapshot(HostRebound(room, s), c)) >>)
                 ELSE Refused(Invalid(s))
            ELSE IF type = "PLAYER"
            THEN IF HasPlayer(room, id)
                 THEN Restored(c, PlayerRebound(room, s, id),
                               << Msg(ToSocket(s), "session_restored",
                                      PlayerSnapshot(PlayerRebound(room, s, id), c,
                                                     PlayerOf(room, id))) >>)
                 ELSE Refused(Invalid(s))
            ELSE Ignored("check_session")

---------------------------------------------------------------------------
(* The question cycle.                                                     *)

\* A faulty sendQuestion that carries the tally of the previous question
\* over.
SendQuestionRoomTallyKept(room, h) ==
    [room EXCEPT
        !.gameState = "QUESTION",
        !.questionStartTime = now,
        !.players = [i \in 1..Len(room.players) |->
                        [room.players[i] EXCEPT !.hasAnsweredThisRound = FALSE]],
        !.timer = h,
        !.lastActivity = now]

\* sendQuestion, the room: state, counters, flags, the new handle h
SendQuestionRoom(room, h) ==
    [room EXCEPT
        !.gameState = "QUESTION",
        !.answersReceived = 0,
        !.questionStartTime = now,
        !.players = [i \in 1..Len(room.players) |->
                        [room.players[i] EXCEPT !.hasAnsweredThisRound = FALSE]],
        !.timer = h,
        !.lastActivity = now]

\* A faulty sendQuestion that leaves the previous interval running.
SendQuestionKept(tm, room) == tm

\* sendQuestion, the intervals: clearInterval(room.timer)
SendQuestionCleared(tm, room) == ClearInterval(tm, room.timer)

\* A faulty countdown that starts a second short.
SetIntervalShort(tm, c, h, timeLeft) ==
    (h :> [code |-> c, timeRemaining |-> timeLeft - 1,
           due |-> now + TickPeriod]) @@ tm

\* sendQuestion, the intervals: room.timeRemaining = timeLeft;
\* room.timer = setInterval(..., 1000): the first firing is due a second
\* from now.
SetInterval(tm, c, h, timeLeft) ==
    (h :> [code |-> c, timeRemaining |-> timeLeft, due |-> now + TickPeriod]) @@ tm

\* sendQuestion, the messages: the host's view, then the room's
SendQuestionEmits(room, c) ==
    LET question == CurrentQuestion(room) IN
    << Msg(ToSocket(room.hostId), "new_question_host",
           [timeLimit |-> TimeLimitOf(question), options |-> question.options,
            questionIndex |-> room.currentQuestionIndex + 1,
            totalQuestions |-> Len(room.quiz)]),
       Msg(ToRoom(c), "new_question_player",
           [options |-> question.options, optionsCount |-> question.options,
            timeLimit |-> TimeLimitOf(question),
            questionIndex |-> room.currentQuestionIndex + 1]) >>

\* sendQuestion on the room `room` (its index already set) stored under c
SendQuestion(c, room) ==
    LET cleared == SendQuestionCleared(timers, room)
        h == NewHandle(cleared, rooms)
    IN  /\ LiveCount(cleared, orphans) < MaxTimers
        /\ FreeHandles(cleared, rooms) # {}
        /\ rooms' = [rooms EXCEPT ![c] = SendQuestionRoom(room, h)]
        /\ accepted' = [accepted EXCEPT ![c] = NoHistory]
        /\ timers' = SetInterval(cleared, c, h, TimeLimitOf(CurrentQuestion(room)))
        /\ emitted' = SendQuestionEmits(room, c)
        /\ Handled

\* endQuestion, the room
EndQuestionRoom(room) == Cleared([room EXCEPT !.gameState = "RESULT"])

\* endQuestion, the intervals: clearInterval(room.timer)
EndQuestionCleared(tm, room) == ClearInterval(tm, room.timer)

\* endQuestion, the message
EndQuestionEmits(room, c) ==
    << Msg(ToRoom(c), "question_ended",
           [correctAnswer |-> CurrentQuestion(room).correctAnswer]) >>

\* A faulty guard that lets any connection command an existing room.
AnyConnection(s, c) == c \in DOMAIN rooms

\* The guard of every host command: room && room.hostId === socket.id
IsHost(s, c) == c \in DOMAIN rooms /\ rooms[c].hostId = s

\* start_game
StartGame(s, c) ==
    /\ ~crashed
    /\ UNCHANGED <<orphans, now, crashed, scoring>>
    /\ IF IsHost(s, c)
       THEN SendQuestion(c, [TouchRoom(rooms[c]) EXCEPT !.currentQuestionIndex = 0])
       ELSE Ignored("host_command")

\* A faulty finish that ranks a player by the scores above theirs only, so
\* that players with equal scores share a rank.
GameOverEmitsTiedRanks(room, full) ==
    << Msg(ToSocket(room.hostId), "game_over",
           [leaderboard |-> BoardView(room, full), isHost |-> TRUE]) >>
    \o [i \in 1..Len(room.players) |->
           Msg(ToSocket(room.players[i].socketId), "game_over",
               [leaderboard |-> BoardView(room, Slice(full, TopN)),
                playerRank |->
                    1 + Cardinality({j \in 1..Len(room.players) :
                            room.players[j].score > room.players[i].score}),
                playerScore |-> room.players[i].score,
                totalPlayers |-> Len(full),
                isHost |-> FALSE])]

\* next_question, past the last question: the final standings
GameOverEmits(room, full) ==
    << Msg(ToSocket(room.hostId), "game_over",
           [leaderboard |-> BoardView(room, full), isHost |-> TRUE]) >>
    \o [i \in 1..Len(room.players) |->
           Msg(ToSocket(room.players[i].socketId), "game_over",
               [leaderboard |-> BoardView(room, Slice(full, TopN)),
                playerRank |-> RankIn(room.players, i),
                playerScore |-> room.players[i].score,
                totalPlayers |-> Len(full),
                isHost |-> FALSE])]

\* next_question
NextQuestion(s, c) ==
    /\ ~crashed
    /\ UNCHANGED <<orphans, now, crashed, scoring>>
    /\ IF IsHost(s, c)
       THEN LET room == [rooms[c] EXCEPT !.currentQuestionIndex = @ + 1] IN
            /\ rooms[c].currentQuestionIndex < Len(rooms[c].quiz) + MaxPastEnd
            /\ IF HasQuestion(room)
               THEN SendQuestion(c, room)
               ELSE LET full == CalculateFullLeaderboard(room) IN
                    /\ rooms' = [rooms EXCEPT ![c] =
                                   [room EXCEPT !.gameState = "FINISHED",
                                                !.leaderboard = full]]
                    /\ emitted' = GameOverEmits(room, full)
                    /\ Handled
                    /\ UNCHANGED <<timers, accepted>>
       ELSE Ignored("host_command")

\* show_leaderboard
ShowLeaderboard(s, c) ==
    /\ ~crashed
    /\ UNCHANGED <<orphans, now, crashed, scoring>>
    /\ IF IsHost(s, c)
       THEN LET board == Slice(CalculateFullLeaderboard(rooms[c]), TopN) IN
            /\ rooms' = [rooms EXCEPT ![c] =
                           [@ EXCEPT !.gameState = "LEADERBOARD",
                                     !.leaderboard = board]]
            /\ emitted' = << Msg(ToRoom(c), "show_leaderboard",
                                 [board |-> BoardView(rooms[c], board)]) >>
            /\ Handled
            /\ UNCHANGED <<timers, accepted>>
       ELSE Ignored("host_command")

\* A faulty reset that forgets the players' scores.
ResetRoomKeepingScores(room) ==
    [room EXCEPT
        !.gameState = "LOBBY",
        !.currentQuestionIndex = 0,
        !.answersReceived = 0,
        !.leaderboard = << >>,
        !.players = [i \in 1..Len(room.players) |->
                        [room.players[i] EXCEPT !.streak = 0,
                                                !.lastAnswerTime = 0,
                                                !.hasAnsweredThisRound = FALSE]]]

\* reset_game, the room
ResetRoom(room) ==
    [room EXCEPT
        !.gameState = "LOBBY",
        !.currentQuestionIndex = 0,
        !.answersReceived = 0,
        !.leaderboard = << >>,
        !.players = [i \in 1..Len(room.players) |->
                        [room.players[i] EXCEPT !.score = 0, !.streak = 0,
                                                !.lastAnswerTime = 0,
                                                !.hasAnsweredThisRound = FALSE]]]

\* reset_game
ResetGame(s, c) ==
    /\ ~crashed
    /\ UNCHANGED <<orphans, now, crashed, scoring>>
    /\ IF IsHost(s, c)
       THEN /\ rooms' = [rooms EXCEPT ![c] = ResetRoom(@)]
            /\ emitted' = << Msg(ToRoom(c), "game_reset", Null) >>
            /\ accepted' = [accepted EXCEPT ![c] = NoHistory]
            /\ Handled
            /\ UNCHANGED timers
       ELSE Ignored("host_command")

\* close_room: delete rooms[roomCode]; the room's interval is not cleared.
CloseRoom(s, c) ==
    /\ ~crashed
    /\ UNCHANGED <<now, crashed, scoring>>
    /\ IF IsHost(s, c)
       THEN /\ rooms' = [d \in DOMAIN rooms \ {c} |-> rooms[d]]
            /\ timers' = Kept(timers, c)
            /\ orphans' = Orphaned(timers, orphans, c)
            /\ accepted' = [d \in DOMAIN accepted \ {c} |-> accepted[d]]
            /\ emitted' = << Msg(ToRoom(c), "room_closed", Null) >>
            /\ Handled
       ELSE Ignored("host_command") /\ UNCHANGED orphans

---------------------------------------------------------------------------
(* Player events.                                                          *)

\* submit_answer, the player: flag, score and streak
Answered(player, isCorrect, points) ==
    IF isCorrect
    THEN [player EXCEPT !.hasAnsweredThisRound = TRUE,
                        !.score = @ + points, !.streak = @ + 1]
    ELSE [player EXCEPT !.hasAnsweredThisRound = TRUE, !.streak = 0]

\* submit_answer, the room once the submission is accepted
SubmitRoom(room, id, isCorrect, points) ==
    TouchRoom([room EXCEPT
        !.players[PlayerPos(room, id)] = Answered(@, isCorrect, points),
        !.answersReceived = @ + 1])

\* A faulty early finish that waits for one submission too many.
AllAnsweredLate(room) == room.answersReceived > Len(room.players)

\* submit_answer: if (room.answersReceived === Object.keys(room.players).length)
AllAnswered(room) == room.answersReceived = Len(room.players)

\* The history of the submissions accepted for the question being played:
\* one more for player id
Record(h, id) ==
    IF id \in h.once
    THEN [h EXCEPT !.again = @ \cup {id}]
    ELSE [h EXCEPT !.once = @ \cup {id}]

\* A faulty test that takes every submission for a first one.
NeverAnswered(player) == FALSE

\* submit_answer: if (player.hasAnsweredThisRound) return
AlreadyAnswered(player) == player.hasAnsweredThisRound

\* submit_answer
SubmitAnswer(s, c, answerIndex, timeRemaining, id) ==
    /\ ~crashed
    /\ UNCHANGED <<orphans, now, crashed, scoring>>
    /\ IF c \notin DOMAIN rooms \/ rooms[c].gameState # "QUESTION"
       THEN Ignored("submit_answer")
       ELSE LET room == rooms[c] IN
            IF ~HasPlayer(room, id) \/ AlreadyAnswered(PlayerOf(room, id))
            THEN Ignored("submit_answer")
            ELSE LET question == CurrentQuestion(room)
                     isCorrect == question.correctAnswer = answerIndex
                     points == PointsFor(question, timeRemaining)
                     after == SubmitRoom(room, id, isCorrect, points)
                     stats == << Msg(ToSocket(s), "answer_received",
                                     [submitted |-> TRUE]),
                                 Msg(ToSocket(room.hostId), "live_stats",
                                     [answersReceived |-> after.answersReceived,
                                      totalPlayers |-> Len(after.players)]) >>
                 IN  /\ isCorrect =>
                            /\ PlayerOf(after, id).score <= MaxScore
                            /\ PlayerOf(after, id).score >= -MaxScore
                            /\ PlayerOf(after, id).streak <= MaxStreak
                     /\ accepted' = [accepted EXCEPT ![c] = Record(@, id)]
                     /\ Handled
                     /\ IF AllAnswered(after)
                        THEN /\ rooms' = [rooms EXCEPT ![c] = EndQuestionRoom(after)]
                             /\ timers' = EndQuestionCleared(timers, after)
                             /\ emitted' = stats \o EndQuestionEmits(after, c)
                        ELSE /\ rooms' = [rooms EXCEPT ![c] = after]
                             /\ emitted' = stats
                             /\ UNCHANGED timers

\* A faulty disconnect that drops the players bound to the connection.
DisconnectedRemoving(rms, s) ==
    [c \in DOMAIN rms |->
        [rms[c] EXCEPT !.players = SelectSeq(@, LAMBDA p : p.socketId # s)]]

\* disconnect, the room table: socket.on('disconnect', () => { })
Disconnected(rms, s) == rms

\* disconnect
Disconnect(s) ==
    /\ ~crashed
    /\ rooms' = Disconnected(rooms, s)
    /\ emitted' = << >>
    /\ ignored' = "disconnect"
    /\ UNCHANGED <<timers, orphans, now, crashed, accepted, scoring>>

---------------------------------------------------------------------------
(* The interval callback installed by sendQuestion.                        *)

\* room.timeRemaining--; the next firing is due a second after this one.
Counted(interval) ==
    [interval EXCEPT !.timeRemaining = @ - 1, !.due = @ + TickPeriod]

\* A faulty test that lets the counter reach zero without ending the
\* question.
ExpiredBelowZero(interval) == interval.timeRemaining < 0

\* if (room.timeRemaining <= 0)
Expired(interval) == interval.timeRemaining <= 0

\* What one firing does to the table, given the interval after counting:
\* touchRoom(roomCode), and at zero endQuestion(roomCode), which throws when
\* no room is stored under the code and, after it has cleared the room's
\* interval and set RESULT, when the room has no current question.
Fired(interval, tm) ==
    LET c == interval.code IN
    IF ~Expired(interval)
    THEN /\ rooms' = IF c \in DOMAIN rooms
                     THEN [rooms EXCEPT ![c] = TouchRoom(@)]
                     ELSE rooms
         /\ timers' = tm
         /\ emitted' = << >>
         /\ UNCHANGED crashed
    ELSE IF c \notin DOMAIN rooms
    THEN /\ timers' = tm
         /\ emitted' = << >>
         /\ crashed' = TRUE
         /\ UNCHANGED rooms
    ELSE LET room == TouchRoom(rooms[c]) IN
         /\ timers' = EndQuestionCleared(tm, room)
         /\ rooms' = [rooms EXCEPT ![c] = EndQuestionRoom(room)]
         /\ IF HasQuestion(room)
            THEN /\ emitted' = EndQuestionEmits(room, c)
                 /\ UNCHANGED crashed
            ELSE /\ emitted' = << >>
                 /\ crashed' = TRUE

\* One firing of the interval with handle h, of a room in the table.
TimerTick(h) ==
    /\ ~crashed
    /\ h \in DOMAIN timers
    /\ timers[h].timeRemaining > -MaxOverrun
    /\ Handled
    /\ UNCHANGED <<orphans, now, accepted, scoring>>
    /\ Fired(Counted(timers[h]), [timers EXCEPT ![h] = Counted(@)])

\* One firing of an interval o of a room object that left the table. The
\* interval lives on for ever; it is followed up to MaxOverrun firings past
\* its first expiry.
OrphanTick(o) ==
    /\ ~crashed
    /\ BagIn(o, orphans)
    /\ Handled
    /\ UNCHANGED <<now, accepted, scoring>>
    /\ orphans' = IF Counted(o).timeRemaining > -MaxOverrun
                  THEN (orphans (-) SetToBag({o})) (+) SetToBag({Counted(o)})
                  ELSE orphans (-) SetToBag({o})
    /\ Fired(Counted(o), timers)

---------------------------------------------------------------------------
(* The events the environment sends during a game: the host is connected   *)
(* on the first socket, the players on the last one, each under a name of  *)
(* their own.                                                              *)

HostSocket == CHOOSE s \in Sockets : \A t \in Sockets : s <= t
PlayerSocket == MaxSockets
CreateInputs == {<<HostSocket, quiz, c, token>> :
                    quiz \in Quizzes, c \in Codes, token \in HostTokens}
JoinInputs == {<<PlayerSocket, c, id, id>> : c \in Codes, id \in PlayerIds}
SubmitInputs ==
    {<<PlayerSocket, c, answerIndex, timeRemaining, id>> :
        c \in Codes, answerIndex \in AnswerIndexes,
        timeRemaining \in ReportedTimes, id \in PlayerIds}

Next ==
    \/ \E i \in CreateInputs : CreateRoom(i[1], i[2], i[3], i[4])
    \/ \E i \in JoinInputs : JoinRoom(i[1], i[2], i[3], i[4])
    \/ \E s \in Sockets, c \in Codes : StartGame(s, c)
    \/ \E s \in Sockets, c \in Codes : NextQuestion(s, c)
    \/ \E s \in Sockets, c \in Codes : ShowLeaderboard(s, c)
    \/ \E s \in Sockets, c \in Codes : ResetGame(s, c)
    \/ \E s \in Sockets, c \in Codes : CloseRoom(s, c)
    \/ \E i \in SubmitInputs : SubmitAnswer(i[1], i[2], i[3], i[4], i[5])
    \/ \E h \in Handles : TimerTick(h)
    \/ \E o \in BagToSet(orphans) : OrphanTick(o)

Spec == Init /\ [][Next]_vars

---------------------------------------------------------------------------
(* The events the environment sends when connections come and go: one      *)
(* player, who joins and reconnects on any socket under any name, and      *)
(* check_session from any socket with any credential.                      *)

SessionPlayer == CHOOSE id \in PlayerIds : \A other \in PlayerIds : id <= other
SessionJoinInputs ==
    {<<s, c, name, SessionPlayer>> : s \in Sockets, c \in Codes, name \in Names}
SessionInputs ==
    {<<s, c, type, id>> :
        s \in Sockets, c \in Codes, type \in SessionTypes, id \in Credentials}
SessionSubmitInputs ==
    {<<s, c, answerIndex, timeRemaining, SessionPlayer>> :
        s \in Sockets, c \in Codes, answerIndex \in AnswerIndexes,
        timeRemaining \in ReportedTimes}

SessionNext ==
    \/ \E i \in CreateInputs : CreateRoom(i[1], i[2], i[3], i[4])
    \/ \E i \in SessionJoinInputs : JoinRoom(i[1], i[2], i[3], i[4])
    \/ \E i \in SessionInputs : CheckSession(i[1], i[2], i[3], i[4])
    \/ \E s \in Sockets : Disconnect(s)
    \/ \E s \in Sockets, c \in Codes : StartGame(s, c)
    \/ \E s \in Sockets, c \in Codes : NextQuestion(s, c)
    \/ \E s \in Sockets, c \in Codes : ShowLeaderboard(s, c)
    \/ \E s \in Sockets, c \in Codes : ResetGame(s, c)
    \/ \E s \in Sockets, c \in Codes : CloseRoom(s, c)
    \/ \E i \in SessionSubmitInputs : SubmitAnswer(i[1], i[2], i[3], i[4], i[5])
    \/ \E h \in Handles : TimerTick(h)
    \/ \E o \in BagToSet(orphans) : OrphanTick(o)

SpecSession == Init /\ [][SessionNext]_vars

---------------------------------------------------------------------------
(* The events the environment sends while players come and go: any player  *)
(* joins and re-joins on any socket, the host's included, under any name,  *)
(* while the host runs the game and time passes. Nobody answers.           *)

\* Date.now() has grown by the time the next event is handled.
Advance ==
    /\ ~crashed
    /\ now < MaxClock
    /\ now' = now + 1
    /\ emitted' = << >>
    /\ Handled
    /\ UNCHANGED <<rooms, timers, orphans, crashed, accepted, scoring>>

LobbyJoinInputs ==
    {<<s, c, name, id>> :
        s \in Sockets, c \in Codes, name \in Names, id \in PlayerIds}

JoinNext ==
    \/ \E i \in CreateInputs : CreateRoom(i[1], i[2], i[3], i[4])
    \/ \E i \in LobbyJoinInputs : JoinRoom(i[1], i[2], i[3], i[4])
    \/ \E s \in Sockets, c \in Codes : StartGame(s, c)
    \/ \E s \in Sockets, c \in Codes : NextQuestion(s, c)
    \/ \E s \in Sockets, c \in Codes : ShowLeaderboard(s, c)
    \/ \E s \in Sockets, c \in Codes : ResetGame(s, c)
    \/ \E s \in Sockets, c \in Codes : CloseRoom(s, c)
    \/ \E h \in Handles : TimerTick(h)
    \/ \E o \in BagToSet(orphans) : OrphanTick(o)
    \/ Advance

SpecJoin == Init /\ [][JoinNext]_vars

---------------------------------------------------------------------------
(* The scoring arithmetic of submit_answer on its own: a correct answer    *)
(* to a question with any time limit (0 stands for a question without      *)
(* one), with any reported remaining time.                                 *)

ScoreInputs ==
    [phase : {"in"}, timeRemaining : (-MaxReported)..MaxReported,
     timeLimit : 0..MaxLimit, points : {0}]

ScoreInit == Started /\ scoring \in ScoreInputs

\* if (isCorrect) { ... points = Math.round(...) }
Score ==
    /\ scoring.phase = "in"
    /\ scoring' = [scoring EXCEPT
                      !.phase = "out",
                      !.points = PointsFor([timeLimit |-> scoring.timeLimit],
                                           scoring.timeRemaining)]
    /\ UNCHANGED <<rooms, timers, orphans, emitted, now, crashed, accepted, ignored>>

ScoreNext == Score

SpecScore == ScoreInit /\ [][ScoreNext]_vars

---------------------------------------------------------------------------
(* A player who reconnects while time passes: the host creates and runs a  *)
(* room, one player joins and sends check_session from any socket, and the *)
(* clock moves on by half a second at a time. The intervals fire when the  *)
(* event loop gets to them, which may be late.                             *)

ClockStep == MsPerSecond \div 2

\* Date.now() has grown by the time the next event is handled.
Later ==
    /\ ~crashed
    /\ now < MaxElapsed * MsPerSecond
    /\ now' = now + ClockStep
    /\ emitted' = << >>
    /\ Handled
    /\ UNCHANGED <<rooms, timers, orphans, crashed, accepted, scoring>>

ReconnectNext ==
    \/ \E i \in CreateInputs : CreateRoom(i[1], i[2], i[3], i[4])
    \/ \E i \in SessionJoinInputs : JoinRoom(i[1], i[2], i[3], i[4])
    \/ \E s \in Sockets, c \in Codes : CheckSession(s, c, "PLAYER", SessionPlayer)
    \/ \E c \in Codes : StartGame(HostSocket, c)
    \/ \E c \in Codes : NextQuestion(HostSocket, c)
    \/ \E h \in Handles : TimerTick(h)
    \/ \E o \in BagToSet(orphans) : OrphanTick(o)
    \/ Later

SpecReconnect == Init /\ [][ReconnectNext]_vars

---------------------------------------------------------------------------
(* The periodic cleanup. Hosts create, run and close rooms with nobody in  *)
(* them while time passes: every live interval fires when it is due, a     *)
(* second after it was installed and every second from then on, and the    *)
(* cleanup pass, which runs every CLEANUP_INTERVAL from the start of the   *)
(* process, may fall at any moment between two events.                     *)

SweepCodes == 1..MaxSwept
SweepCreateInputs ==
    {<<HostSocket, quiz, c, token>> :
        quiz \in Quizzes, c \in SweepCodes, token \in HostTokens}

\* A faulty test that evicts a room as soon as its idle time reaches the
\* threshold.
StaleAtTimeout(room) == now - room.lastActivity >= RoomInactivityTimeout

\* cleanup: if (now - room.lastActivity > ROOM_INACTIVITY_TIMEOUT)
Stale(room) == now - room.lastActivity > RoomInactivityTimeout

\* cleanup: what the pass writes to the console, the line of each evicted
\* room and the closing count, as one message.
SweepLog(checked, stale) ==
    IF checked = {}
    THEN << >>
    ELSE << Msg([kind |-> "console", id |-> 0], "Room cleanup",
                [evicted |-> stale,
                 checked |-> Cardinality(checked),
                 active |-> Cardinality(checked \ stale)]) >>

\* cleanup: one pass over the table
Sweep ==
    LET stale == {c \in DOMAIN rooms : Stale(rooms[c])} IN
    /\ ~crashed
    /\ rooms' = [c \in DOMAIN rooms \ stale |-> rooms[c]]
    /\ timers' = [h \in DOMAIN timers \ {rooms[c].timer : c \in stale} |->
                     timers[h]]
    /\ accepted' = [c \in DOMAIN accepted \ stale |-> accepted[c]]
    /\ emitted' = SweepLog(DOMAIN rooms, stale)
    /\ Handled
    /\ UNCHANGED <<orphans, now, crashed, scoring>>

\* setInterval(..., 1000): an interval fires when its firing is due.
DueTick(h) == h \in DOMAIN timers /\ timers[h].due = now /\ TimerTick(h)
DueOrphanTick(o) == o.due = now /\ OrphanTick(o)

\* Time passes, by a second or by the whole inactivity timeout, but not
\* beyond a firing that is due. The clock is followed for MaxSeconds
\* seconds from the start and from the moment the timeout has passed.
Elapse(d) ==
    /\ ~crashed
    /\ now + d <= RoomInactivityTimeout + MaxSeconds * TickPeriod
    /\ (now + d) % RoomInactivityTimeout <= MaxSeconds * TickPeriod
    /\ \A h \in DOMAIN timers : now + d <= timers[h].due
    /\ \A o \in BagToSet(orphans) : now + d <= o.due
    /\ now' = now + d
    /\ emitted' = << >>
    /\ Handled
    /\ UNCHANGED <<rooms, timers, orphans, crashed, accepted, scoring>>

SweepNext ==
    \/ \E i \in SweepCreateInputs : CreateRoom(i[1], i[2], i[3], i[4])
    \/ \E c \in SweepCodes : StartGame(HostSocket, c)
    \/ \E c \in SweepCodes : NextQuestion(HostSocket, c)
    \/ \E c \in SweepCodes : ShowLeaderboard(HostSocket, c)
    \/ \E c \in SweepCodes : ResetGame(HostSocket, c)
    \/ \E c \in SweepCodes : CloseRoom(HostSocket, c)
    \/ \E h \in Handles : DueTick(h)
    \/ \E o \in BagToSet(orphans) : DueOrphanTick(o)
    \/ \E d \in {TickPeriod, RoomInactivityTimeout} : Elapse(d)
    \/ Sweep

SpecSweep == Init /\ [][SweepNext]_vars

---------------------------------------------------------------------------
(* The standings on their own: a room with any number of players up to     *)
(* MaxRanked whose only question has just ended with everybody's answer    *)
(* in, each player with one of the scores a question can leave behind;     *)
(* the host goes on to the standings and to the end of the game.           *)

\* The scores after one question: nothing, or the points of a correct
\* answer given at the last or at the first moment.
EndScores ==
    {0} \cup {PointsFor(QuestionAt(0), timeRemaining) :
                 timeRemaining \in {0, QuestionAt(0).timeLimit}}

\* The room after endQuestion, scores[i] being the score of player i
RankRoom(scores) ==
    [NewRoom(HostSocket, QuizOfLength(1), CHOOSE token \in HostTokens : TRUE)
        EXCEPT !.gameState = "RESULT",
               !.answersReceived = Len(scores),
               !.questionStartTime = 0,
               !.players =
                   [i \in 1..Len(scores) |->
                       [NewPlayer(i, PlayerSocket, i) EXCEPT
                           !.score = scores[i],
                           !.streak = IF scores[i] > 0 THEN 1 ELSE 0,
                           !.hasAnsweredThisRound = TRUE]]]

RankInit ==
    /\ now = 0
    /\ rooms \in {(c :> RankRoom(scores)) :
                    c \in Codes,
                    scores \in UNION {[1..n -> EndScores] : n \in 0..MaxRanked}}
    /\ accepted = [c \in DOMAIN rooms |->
                     [once |-> {rooms[c].players[i].id :
                                   i \in 1..Len(rooms[c].players)},
                      again |-> {}]]
    /\ timers = << >>
    /\ orphans = EmptyBag
    /\ emitted = << >>
    /\ crashed = FALSE
    /\ ignored = "none"
    /\ scoring = Idle

RankNext ==
    \/ \E s \in Sockets, c \in Codes : NextQuestion(s, c)
    \/ \E s \in Sockets, c \in Codes : ShowLeaderboard(s, c)

SpecRank == RankInit /\ [][RankNext]_vars

---------------------------------------------------------------------------
(* A game whose host leaves a running question alone: rooms are created    *)
(* under codes that are not in use and are not closed, the host starts the *)
(* game from the lobby and moves on, shows the standings or resets only    *)
(* once the question has ended, and players join and answer, or do not.    *)
(* The event loop runs every interval callback that is due: each live     *)
(* interval keeps firing, whatever the other intervals do.                 *)

InState(c, states) == c \in DOMAIN rooms /\ rooms[c].gameState \in states

CountdownNext ==
    \/ \E i \in CreateInputs :
          i[3] \notin DOMAIN rooms /\ CreateRoom(i[1], i[2], i[3], i[4])
    \/ \E i \in JoinInputs : JoinRoom(i[1], i[2], i[3], i[4])
    \/ \E c \in Codes : InState(c, {"LOBBY"}) /\ StartGame(HostSocket, c)
    \/ \E c \in Codes :
          InState(c, {"RESULT", "LEADERBOARD"}) /\ NextQuestion(HostSocket, c)
    \/ \E c \in Codes : InState(c, {"RESULT"}) /\ ShowLeaderboard(HostSocket, c)
    \/ \E c \in Codes :
          InState(c, {"RESULT", "LEADERBOARD", "FINISHED"})
              /\ ResetGame(HostSocket, c)
    \/ \E i \in SubmitInputs : SubmitAnswer(i[1], i[2], i[3], i[4], i[5])
    \/ \E h \in Handles : TimerTick(h)

SpecCountdown ==
    /\ Init
    /\ [][CountdownNext]_vars
    /\ \A h \in Handles : WF_vars(TimerTick(h))

---------------------------------------------------------------------------
(* Questions with and without a time limit of their own: the host creates  *)
(* a room with a quiz of either kind under a code that is not in use,      *)
(* starts it and moves on, and the players join and answer while the       *)
(* countdown runs.                                                         *)

\* The same quiz, no question of which sets timeLimit.
Untimed(quiz) == [k \in 1..Len(quiz) |-> [quiz[k] EXCEPT !.timeLimit = 0]]

BeginCreateInputs ==
    {<<HostSocket, quiz, c, token>> :
        quiz \in Quizzes \cup {Untimed(q) : q \in Quizzes},
        c \in Codes, token \in HostTokens}

BeginNext ==
    \/ \E i \in BeginCreateInputs :
          i[3] \notin DOMAIN rooms /\ CreateRoom(i[1], i[2], i[3], i[4])
    \/ \E i \in JoinInputs : JoinRoom(i[1], i[2], i[3], i[4])
    \/ \E c \in Codes : StartGame(HostSocket, c)
    \/ \E c \in Codes : NextQuestion(HostSocket, c)
    \/ \E i \in SubmitInputs : SubmitAnswer(i[1], i[2], i[3], i[4], i[5])
    \/ \E h \in Handles : TimerTick(h)

SpecBegin == Init /\ [][BeginNext]_vars

---------------------------------------------------------------------------
(* Properties.                                                             *)

\* The events of the messages sent by the last step to the room of code c
SentToRoom(msgs, c) == {msgs[i].ev : i \in {j \in DOMAIN msgs : msgs[j].to = ToRoom(c)}}

\* The events of all the messages sent by the last step
Sent(msgs) == {msgs[i].ev : i \in DOMAIN msgs}

\* C1: for every room and player, at most one submit_answer is accepted per
\* (player, question): while a question is played, no player has a second
\* submission accepted for it (flag set, answersReceived incremented, score
\* credited a second time).
C1_AcceptedOnce == \A c \in DOMAIN accepted : accepted[c].again = {}

\* C2: each room has at most one live countdown: every live interval of a
\* room in the table is the one the room holds in room.timer, so an
\* interval installed earlier by sendQuestion has been cancelled.
C2_OneCountdown ==
    \A h \in DOMAIN timers :
        /\ timers[h].code \in DOMAIN rooms
        /\ rooms[timers[h].code].timer = h

\* C2, its case: sendQuestion has just installed the interval of the second
\* question while the room still held the handle of an earlier one (the
\* new handle is not the first one), and it is the only live interval of
\* the room.
C2_Reinstalled ==
    \E c \in DOMAIN rooms :
        /\ rooms[c].gameState = "QUESTION"
        /\ rooms[c].currentQuestionIndex = 1
        /\ "new_question_player" \in SentToRoom(emitted, c)
        /\ TimersOf(timers, c) = {rooms[c].timer}
        /\ rooms[c].timer # NewHandle(<< >>, << >>)
        /\ orphans = EmptyBag

\* C3: whenever a room's gameState is not QUESTION, the room has no live
\* countdown.
C3_NoCountdownOutsideQuestion ==
    \A c \in DOMAIN rooms :
        rooms[c].gameState # "QUESTION" => TimersOf(timers, c) = {}

\* C4: once a room has left QUESTION, a later end-trigger is a no-op: no
\* step taken from a state in which the room is not in QUESTION sends
\* question_ended to the room. Only the intervals of rooms in the table
\* are considered: no interval of a replaced or closed room is live.
C4_NoLateEnd ==
    [][\A c \in DOMAIN rooms :
          rooms[c].gameState # "QUESTION" /\ orphans = EmptyBag
              => "question_ended" \notin SentToRoom(emitted', c)]_vars

\* C5: early finish: the accepted submission that makes answersReceived
\* equal to the number of players moves the room from QUESTION to RESULT
\* in that step, sends question_ended and cancels the room's countdown in
\* that step, whatever time remains.
C5_EarlyFinish ==
    [][\A c \in DOMAIN rooms :
          (/\ c \in DOMAIN rooms'
           /\ rooms[c].gameState = "QUESTION"
           /\ Len(rooms[c].players) >= 1
           /\ rooms'[c].answersReceived = rooms[c].answersReceived + 1
           /\ rooms'[c].answersReceived = Len(rooms'[c].players))
              => (/\ rooms'[c].gameState = "RESULT"
                  /\ TimersOf(timers', c) = {}
                  /\ rooms'[c].timer \notin DOMAIN timers'
                  /\ "question_ended" \in SentToRoom(emitted', c))]_vars

\* C5, its case: the last of two players has just had a submission
\* accepted; the question has ended and no interval of the room is live.
C5_Finished ==
    \E c \in DOMAIN rooms :
        /\ rooms[c].gameState = "RESULT"
        /\ Len(rooms[c].players) = 2
        /\ rooms[c].answersReceived = 2
        /\ accepted[c].once = {1, 2}
        /\ {"answer_received", "question_ended"} \subseteq Sent(emitted)
        /\ TimersOf(timers, c) = {}

\* C6: create_room never yields the code of a live room: a creation never
\* replaces a room of the table.
C6_NoCollision ==
    [][\A i \in CreateInputs :
          CreateRoom(i[1], i[2], i[3], i[4]) => i[3] \notin DOMAIN rooms]_vars

\* What check_session may not change of a room: everything but the
\* connection bindings (hostId, socketId) and lastActivity.
GameOf(room) ==
    [room EXCEPT !.hostId = 0, !.lastActivity = 0,
                 !.players = [i \in 1..Len(room.players) |->
                                 [room.players[i] EXCEPT !.socketId = 0]]]

\* The step is the answer to a check_session: only that handler sends
\* session_restored or session_invalid.
SessionAnswered == Sent(emitted') \cap {"session_restored", "session_invalid"} # {}

\* The answer a second check_session of the same connection with the same
\* credential gets in the state the first one leaves; first is the
\* session_restored message of the first one.
SecondAnswer(first) ==
    LET s == first.to.id
        c == first.data.roomCode
    IN  IF first.data.role = "HOST"
        THEN {Msg(ToSocket(s), "session_restored",
                  HostSnapshot(HostRebound(rooms'[c], s), c))}
        ELSE {Msg(ToSocket(s), "session_restored",
                  PlayerSnapshot(PlayerRebound(rooms'[c], s, id), c,
                                 PlayerOf(rooms'[c], id))) :
                 id \in {p \in PlayerIds :
                            /\ HasPlayer(rooms'[c], p)
                            /\ PlayerOf(rooms'[c], p).socketId = s
                            /\ PlayerOf(rooms'[c], p).name = first.data.playerName}}

\* C7: check_session is a pure read of the game: a step that answers a
\* check_session changes no room's scores, streaks, submitted flags,
\* answersReceived, gameState, currentQuestionIndex or stored leaderboard,
\* and no interval; only hostId, a player's socketId and lastActivity may
\* change; and when it restores the session (valid credential), a second
\* call in succession gets the same snapshot.
C7_PureRead ==
    [][SessionAnswered
          => (/\ DOMAIN rooms' = DOMAIN rooms
              /\ \A c \in DOMAIN rooms : GameOf(rooms'[c]) = GameOf(rooms[c])
              /\ timers' = timers
              /\ orphans' = orphans
              /\ Len(emitted') = 1
              /\ emitted'[1].ev = "session_restored"
                    => emitted'[1] \in SecondAnswer(emitted'[1]))]_vars

\* C7, its case: the host has just been restored on another socket than
\* the one it created the room on, after a question that the player has
\* answered correctly.
C7_Restored ==
    \E c \in DOMAIN rooms :
        /\ rooms[c].gameState = "RESULT"
        /\ rooms[c].answersReceived = 1
        /\ \E i \in 1..Len(rooms[c].players) : rooms[c].players[i].score > 0
        /\ rooms[c].hostId # HostSocket
        /\ Sent(emitted) = {"session_restored"}
        /\ emitted[1].data.role = "HOST"

\* C8: the points of a correct answer are round(600 + 400 * min(t, L) / L)
\* for the reported remaining time t and the question's time limit L (20
\* for a question without one): with L = 20, t = 20 gives 1000, t = 0 gives
\* 600 and t = 25 gives 1000; no correct answer is worth more than 1000.
\* p = round(x) is stated as p - 1/2 <= x < p + 1/2.
C8_Points ==
    scoring.phase = "out" =>
        LET L == IF scoring.timeLimit = 0 THEN 20 ELSE scoring.timeLimit
            t == scoring.timeRemaining
            m == IF t < L THEN t ELSE L
            p == scoring.points
        IN  /\ 2 * p * L - L <= 2 * (600 * L + 400 * m)
            /\ 2 * (600 * L + 400 * m) < 2 * p * L + L
            /\ (L = 20 /\ t = 20) => p = 1000
            /\ (L = 20 /\ t = 0) => p = 600
            /\ (L = 20 /\ t = 25) => p = 1000
            /\ p <= 1000

\* C8, its case: a correct answer to a 20-second question reported with 25
\* seconds left has been scored.
C8_Overreported ==
    /\ scoring.phase = "out"
    /\ scoring.timeLimit = 20
    /\ scoring.timeRemaining = 25
    /\ scoring.points = 1000

\* C9: the reported remaining time is clamped to [0, timeLimit]: for every
\* reported value, a correct answer is worth at least 600 and at most 1000
\* points.
C9_Clamped ==
    scoring.phase = "out" => (scoring.points >= 600 /\ scoring.points <= 1000)

\* C10: a host command (start_game, next_question, show_leaderboard,
\* reset_game, close_room) sent by a connection that is not the room's
\* current hostId changes no room and no interval and sends nothing; that
\* holds for the host's previous connection once a reconnect has rebound
\* hostId.
C10_HostOnly ==
    [][\A s \in Sockets, c \in Codes :
          (/\ c \in DOMAIN rooms => rooms[c].hostId # s
           /\ \/ StartGame(s, c)
              \/ NextQuestion(s, c)
              \/ ShowLeaderboard(s, c)
              \/ ResetGame(s, c)
              \/ CloseRoom(s, c))
              => (/\ rooms' = rooms
                  /\ timers' = timers
                  /\ orphans' = orphans
                  /\ emitted' = << >>)]_vars

\* C10, its case: the host has reconnected on another socket during a
\* question, and a host command from another connection has just been
\* ignored.
C10_Refused ==
    \E c \in DOMAIN rooms :
        /\ rooms[c].gameState = "QUESTION"
        /\ rooms[c].hostId # HostSocket
        /\ ignored = "host_command"

\* The step creates the room stored under code c: create_room answers with
\* the code.
CreatedAt(c) ==
    \E i \in DOMAIN emitted' :
        emitted'[i].ev = "create_room:ack" /\ emitted'[i].data.roomCode = c

\* The step restores the host of the room of code c on socket s.
HostRestoredOn(c, s) ==
    \E i \in DOMAIN emitted' :
        /\ emitted'[i].ev = "session_restored"
        /\ emitted'[i].to = ToSocket(s)
        /\ emitted'[i].data.role = "HOST"
        /\ emitted'[i].data.roomCode = c

\* C11: a room's hostId changes only through a check_session of type HOST
\* whose credential is the room's hostToken (a room that create_room stores
\* under the code is another room); a HOST check_session with any other
\* credential answers session_invalid and changes no room and no interval.
C11_HostByTokenOnly ==
    [][/\ \A c \in DOMAIN rooms \cap DOMAIN rooms' :
             (rooms'[c].hostId # rooms[c].hostId /\ ~CreatedAt(c))
                 => HostRestoredOn(c, rooms'[c].hostId)
       /\ \A s \in Sockets, c \in DOMAIN rooms :
             \A id \in Credentials \ {rooms[c].hostToken} :
                 CheckSession(s, c, "HOST", id)
                     => (/\ emitted' = << Msg(ToSocket(s), "session_invalid", Null) >>
                         /\ rooms' = rooms
                         /\ timers' = timers
                         /\ orphans' = orphans)]_vars

\* C11, its case: the host has just been restored on another socket than
\* the one it created the room on, while the room is in the lobby with a
\* player in it.
C11_Rebound ==
    \E c \in DOMAIN rooms :
        /\ rooms[c].gameState = "LOBBY"
        /\ Len(rooms[c].players) = 1
        /\ rooms[c].hostId # HostSocket
        /\ Len(emitted) = 1
        /\ emitted[1].ev = "session_restored"
        /\ emitted[1].to = ToSocket(rooms[c].hostId)
        /\ emitted[1].data.role = "HOST"

\* C12: every check_session produces exactly one reply to the requester,
\* session_restored or session_invalid: no check_session returns without a
\* message.
C12_AlwaysAnswered == ignored # "check_session"

\* The error a join_room reports through its acknowledgment, "" when it
\* reports none
JoinErrorOf(msgs) ==
    IF \E i \in DOMAIN msgs :
           msgs[i].ev = "join_room:ack" /\ "error" \in DOMAIN msgs[i].data
    THEN msgs[CHOOSE i \in DOMAIN msgs :
                  msgs[i].ev = "join_room:ack" /\ "error" \in DOMAIN msgs[i].data]
             .data.error
    ELSE ""

\* C13: join_room fails with "Game in progress" exactly when the room exists,
\* its gameState is not LOBBY and the given id is not in its players; a join
\* by an id already in players is never rejected with that error.
C13_InProgressOnlyForNewcomers ==
    [][\A i \in LobbyJoinInputs :
          JoinRoom(i[1], i[2], i[3], i[4])
              => ((JoinErrorOf(emitted') = "Game in progress")
                    <=> (/\ i[2] \in DOMAIN rooms
                         /\ rooms[i[2]].gameState # "LOBBY"
                         /\ \A k \in 1..Len(rooms[i[2]].players) :
                               rooms[i[2]].players[k].id # i[4]))]_vars

\* C13, its case: a join has just been turned away with "Game in progress"
\* from a room that shows its leaderboard and has a player in it.
C13_TurnedAway ==
    \E c \in DOMAIN rooms :
        /\ rooms[c].gameState = "LEADERBOARD"
        /\ Len(rooms[c].players) = 1
        /\ JoinErrorOf(emitted) = "Game in progress"

\* No two players of a room with different ids have the same name.
NamesUnique(rms) ==
    \A c \in DOMAIN rms :
        \A i, j \in 1..Len(rms[c].players) :
            rms[c].players[i].id # rms[c].players[j].id
                => rms[c].players[i].name # rms[c].players[j].name

\* The name is held in the room by a player with another id than id.
HeldByAnother(room, name, id) ==
    \E k \in 1..Len(room.players) :
        room.players[k].name = name /\ room.players[k].id # id

\* The name is the one the player id has in the room.
OwnName(room, name, id) ==
    \E k \in 1..Len(room.players) :
        room.players[k].name = name /\ room.players[k].id = id

C15_HostCannotJoin ==
    [][\A i \in LobbyJoinInputs :
          (/\ JoinRoom(i[1], i[2], i[3], i[4])
           /\ i[2] \in DOMAIN rooms
           /\ rooms[i[2]].hostId = i[1])
              => (/\ JoinErrorOf(emitted') # ""
                  /\ rooms'[i[2]].players = rooms[i[2]].players)]_vars

\* C16: a rejected join_room (room not found, game in progress, name taken)
\* reports its error through the acknowledgment and changes no state: every
\* room (players, gameState, answersReceived, lastActivity, connection
\* bindings) and every interval is as before, and the acknowledgment is the
\* only message sent, so nothing goes to the host.
C16_RejectedJoinChangesNothing ==
    [][\A i \in LobbyJoinInputs :
          (/\ JoinRoom(i[1], i[2], i[3], i[4])
           /\ \/ i[2] \notin DOMAIN rooms
              \/ InProgress(rooms[i[2]], i[4])
              \/ HeldByAnother(rooms[i[2]], i[3], i[4]))
              => (/\ rooms' = rooms
                  /\ timers' = timers
                  /\ orphans' = orphans
                  /\ Len(emitted') = 1
                  /\ emitted'[1].to = ToSocket(i[1])
                  /\ emitted'[1].ev = "join_room:ack"
                  /\ JoinErrorOf(emitted')
                        \in {"Room not found", "Game in progress", "Name taken"})]_vars

\* C16, its case: a join has just been rejected by a room whose last
\* activity is older than the rejection.
C16_RejectedLater ==
    \E c \in DOMAIN rooms :
        /\ JoinErrorOf(emitted) \in {"Game in progress", "Name taken"}
        /\ rooms[c].lastActivity < now

\* C17: destroying a room cancels its countdown: every live interval is the
\* countdown of a room code that is in the registry, so no timer callback
\* runs against a code that is no longer there.
C17_NoCountdownWithoutRoom ==
    /\ \A h \in DOMAIN timers : timers[h].code \in DOMAIN rooms
    /\ \A o \in BagToSet(orphans) : o.code \in DOMAIN rooms

\* C18: once close_room has removed a room, every check_session for its
\* code is answered with session_invalid: for a code that is not in the
\* registry, a check_session from any connection with any credential can be
\* handled, and its answer is session_invalid.
C18_ClosedRoomAnswered ==
    \A c \in Codes \ DOMAIN rooms :
        \A s \in Sockets, id \in Credentials :
            ENABLED (/\ CheckSession(s, c, "HOST", id)
                     /\ emitted' = << Msg(ToSocket(s), "session_invalid", Null) >>)

\* C19: start_game takes effect only when the room is in LOBBY: issued in
\* any other gameState it changes no room and no interval and sends nothing.
C19_StartOnlyFromLobby ==
    [][\A s \in Sockets, c \in DOMAIN rooms :
          (rooms[c].gameState # "LOBBY" /\ StartGame(s, c))
              => (/\ rooms' = rooms
                  /\ timers' = timers
                  /\ emitted' = << >>)]_vars

\* The roster of a room: its players' ids, names and connection bindings,
\* in their order.
Roster(room) ==
    [i \in 1..Len(room.players) |->
        [id |-> room.players[i].id, name |-> room.players[i].name,
         socketId |-> room.players[i].socketId]]

\* C20: reset_game by the current host, from any gameState, leaves the room
\* in LOBBY with currentQuestionIndex = 0, answersReceived = 0, every
\* player's score 0 and submitted flag false, and the roster unchanged: the
\* same ids with the same names and connection bindings. The step is the
\* one that sends game_reset to the room.
C20_ResetKeepsRoster ==
    [][\A c \in DOMAIN rooms :
          "game_reset" \in SentToRoom(emitted', c)
              => (/\ c \in DOMAIN rooms'
                  /\ rooms'[c].gameState = "LOBBY"
                  /\ rooms'[c].currentQuestionIndex = 0
                  /\ rooms'[c].answersReceived = 0
                  /\ \A i \in 1..Len(rooms'[c].players) :
                        /\ rooms'[c].players[i].score = 0
                        /\ ~rooms'[c].players[i].hasAnsweredThisRound
                  /\ Roster(rooms'[c]) = Roster(rooms[c])
                  /\ rooms'[c].hostId = rooms[c].hostId)]_vars

\* C20, its case: a room with two players has just been reset while a
\* question was running (its countdown is still live).
C20_ResetMidQuestion ==
    \E c \in DOMAIN rooms :
        /\ "game_reset" \in SentToRoom(emitted, c)
        /\ Len(rooms[c].players) = 2
        /\ rooms[c].gameState = "LOBBY"
        /\ TimersOf(timers, c) # {}

\* C21: next_question issued by the host of a room that is already FINISHED
\* is a silent no-op: gameState, currentQuestionIndex, the stored
\* leaderboard and the scores (the whole room) are as before, and no
\* game_over is sent again.
C21_FinishedIgnoresNext ==
    [][\A s \in Sockets, c \in DOMAIN rooms :
          (/\ rooms[c].gameState = "FINISHED"
           /\ rooms[c].hostId = s
           /\ NextQuestion(s, c))
              => (/\ rooms' = rooms
                  /\ "game_over" \notin Sent(emitted'))]_vars

\* The payloads a player can receive that describe a question: the room's
\* new_question_player and the PLAYER session_restored snapshot.
PlayerViews(msgs) ==
    {msgs[i].data : i \in {j \in DOMAIN msgs :
        \/ msgs[j].ev = "new_question_player"
        \/ /\ msgs[j].ev = "session_restored"
           /\ msgs[j].data.role = "PLAYER"}}

\* C22: the answer key reaches the players only when the question ends:
\* every step that sends question_ended to a room takes that room out of
\* QUESTION (it is never sent while the room is in LOBBY, RESULT,
\* LEADERBOARD or FINISHED), and neither new_question_player nor the PLAYER
\* session_restored snapshot carries correctAnswer. Only the intervals of
\* rooms in the table are considered: no interval of a replaced or closed
\* room is live.
C22_KeyOnlyAtQuestionEnd ==
    [][/\ \A c \in DOMAIN rooms :
             (orphans = EmptyBag /\ "question_ended" \in SentToRoom(emitted', c))
                 => (/\ rooms[c].gameState = "QUESTION"
                     /\ c \in DOMAIN rooms'
                     /\ rooms'[c].gameState = "RESULT")
       /\ \A view \in PlayerViews(emitted') :
             /\ "correctAnswer" \notin DOMAIN view
             /\ "currentQuestion" \in DOMAIN view
                    => "correctAnswer" \notin DOMAIN view.currentQuestion]_vars

\* The changes of gameState that the cycle LOBBY -> QUESTION ->
\* {RESULT | LEADERBOARD} -> QUESTION -> ... -> FINISHED, with reset to
\* LOBBY, rules out.
OffCycle ==
    {<<"LOBBY", "LEADERBOARD">>, <<"LOBBY", "FINISHED">>, <<"LOBBY", "RESULT">>,
     <<"FINISHED", "RESULT">>, <<"FINISHED", "LEADERBOARD">>,
     <<"FINISHED", "QUESTION">>}

\* C23: a room's gameState moves only along LOBBY -> QUESTION ->
\* {RESULT | LEADERBOARD} -> QUESTION -> ... -> FINISHED, plus reset to
\* LOBBY: no step takes a room from LOBBY to LEADERBOARD, FINISHED or
\* RESULT, or from FINISHED to RESULT, LEADERBOARD or QUESTION.
C23_StateCycle ==
    [][\A c \in DOMAIN rooms \cap DOMAIN rooms' :
          <<rooms[c].gameState, rooms'[c].gameState>> \notin OffCycle]_vars

\* The game_over payloads of the players among the messages of a finish:
\* the message after the host's, in the order of the players.
PlayerOver(msgs, i) == msgs[i + 1].data

\* A top view is in standings order: scores never increase down the list.
NonIncreasing(board) ==
    \A k \in 1..(Len(board) - 1) : board[k].score >= board[k + 1].score

\* C24: when the game finishes, each player receives a game_over payload
\* with their own rank, and the ranks form a full ranking consistent with
\* the scores: the ranks of the N players are exactly 1..N without
\* duplicates, a strictly higher score has a strictly smaller rank,
\* playerScore is the player's score, totalPlayers is N, and the shared top
\* view has at most 5 entries in non-increasing score order.
C24_FullRanking ==
    [][\A s \in Sockets, c \in DOMAIN rooms :
          (NextQuestion(s, c) /\ "game_over" \in Sent(emitted'))
              => LET players == rooms'[c].players
                     N == Len(players)
                 IN  /\ Len(emitted') = N + 1
                     /\ emitted'[1].to = ToSocket(rooms'[c].hostId)
                     /\ emitted'[1].data.isHost
                     /\ \A i \in 1..N :
                           /\ emitted'[i + 1].ev = "game_over"
                           /\ emitted'[i + 1].to = ToSocket(players[i].socketId)
                           /\ ~PlayerOver(emitted', i).isHost
                           /\ PlayerOver(emitted', i).playerScore = players[i].score
                           /\ PlayerOver(emitted', i).totalPlayers = N
                           /\ Len(PlayerOver(emitted', i).leaderboard) <= TopN
                           /\ NonIncreasing(PlayerOver(emitted', i).leaderboard)
                     /\ {PlayerOver(emitted', i).playerRank : i \in 1..N} = 1..N
                     /\ \A i, j \in 1..N :
                           players[i].score > players[j].score
                               => PlayerOver(emitted', i).playerRank
                                      < PlayerOver(emitted', j).playerRank]_vars

\* C24, its case: a game of more than 5 players has just finished; two of
\* them have equal scores, and a player who joined later has a higher score
\* than one who joined earlier.
C24_Finished ==
    \E c \in DOMAIN rooms :
        LET players == rooms[c].players IN
        /\ rooms[c].gameState = "FINISHED"
        /\ Len(emitted) = Len(players) + 1
        /\ "game_over" \in Sent(emitted)
        /\ Len(players) > TopN
        /\ Len(PlayerOver(emitted, 1).leaderboard) = TopN
        /\ \E i, j \in 1..Len(players) :
              i < j /\ players[i].score = players[j].score
        /\ \E i, j \in 1..Len(players) :
              i < j /\ players[i].score < players[j].score

\* C25: in every reachable state of every room,
\* 0 <= answersReceived <= number of players in the room.
C25_TallyWithinRoster ==
    \A c \in DOMAIN rooms :
        /\ 0 <= rooms[c].answersReceived
        /\ rooms[c].answersReceived <= Len(rooms[c].players)

\* C25, its case: the tally of a room of two players has reached the size
\* of the roster, one of the players having been counted twice for the
\* question (after a re-join), and the question has ended.
C25_TallyFull ==
    \E c \in DOMAIN rooms :
        /\ Len(rooms[c].players) = 2
        /\ rooms[c].answersReceived = 2
        /\ rooms[c].gameState = "RESULT"
        /\ accepted[c].again # {}

\* C26: while a room is live its roster never shrinks: a player entry, once
\* created by a successful join_room, stays in players through disconnects,
\* reconnects, question changes and reset_game; it goes only with the room
\* itself, when the room is closed or its code is given to a new room.
C26_RosterNeverShrinks ==
    [][\A c \in DOMAIN rooms \cap DOMAIN rooms' :
          "create_room:ack" \notin Sent(emitted')
              => \A i \in 1..Len(rooms[c].players) :
                    HasPlayer(rooms'[c], rooms[c].players[i].id)]_vars

\* C26, its case: a connection has just gone while a question was running,
\* and the player who joined the room is still in its roster.
C26_StillThere ==
    \E c \in DOMAIN rooms :
        /\ ignored = "disconnect"
        /\ rooms[c].gameState = "QUESTION"
        /\ HasPlayer(rooms[c], SessionPlayer)

\* C27: every event that changes a room's state updates that room's
\* lastActivity: after a step that changed a room (an authorised
\* show_leaderboard, reset_game or finishing next_question included), the
\* room's lastActivity is the current time.
C27_ChangeTouches ==
    [][\A c \in DOMAIN rooms \cap DOMAIN rooms' :
          rooms'[c] # rooms[c] => rooms'[c].lastActivity = now']_vars

\* C28: each cleanup pass removes exactly the rooms whose lastActivity is
\* older than the inactivity threshold and cancels their countdowns; every
\* other room and its countdown are untouched; and a room whose countdown
\* is still ticking is never evicted.
C28_SweepExact ==
    [][Sweep =>
          /\ DOMAIN rooms' =
                {c \in DOMAIN rooms :
                    ~(now - rooms[c].lastActivity > RoomInactivityTimeout)}
          /\ \A c \in DOMAIN rooms' : rooms'[c] = rooms[c]
          /\ DOMAIN timers' =
                {h \in DOMAIN timers : timers[h].code \in DOMAIN rooms'}
          /\ \A h \in DOMAIN timers' : timers'[h] = timers[h]
          /\ \A c \in DOMAIN rooms :
                TimersOf(timers, c) # {} => c \in DOMAIN rooms']_vars

\* C28, its case: a cleanup pass has just evicted one room and kept
\* another, whose question is running.
C28_OneEvicted ==
    /\ Len(emitted) = 1
    /\ emitted[1].ev = "Room cleanup"
    /\ Cardinality(emitted[1].data.evicted) = 1
    /\ Cardinality(DOMAIN rooms) = 1
    /\ \A c \in DOMAIN rooms :
          /\ rooms[c].gameState = "QUESTION"
          /\ TimersOf(timers, c) # {}

\* A payload exposes the host token when it has a hostToken field, at the
\* top or in one of the entries or objects it carries.
HasToken(object) == "hostToken" \in DOMAIN object
Exposes(data) ==
    \/ HasToken(data)
    \/ \E f \in DOMAIN data \cap {"question", "currentQuestion", "stats"} :
          HasToken(data[f])
    \/ \E f \in DOMAIN data \cap {"players", "leaderboard", "board"} :
          \E k \in 1..Len(data[f]) : HasToken(data[f][k])

\* C29: the host token is never exposed to players: it appears only in the
\* create_room acknowledgment, sent to the connection that created the
\* room, and no other message, to the room or to a connection, contains it.
C29_TokenOnlyToCreator ==
    \A i \in DOMAIN emitted :
        Exposes(emitted[i].data)
            => (/\ emitted[i].ev = "create_room:ack"
                /\ emitted[i].data.roomCode \in DOMAIN rooms
                /\ emitted[i].to =
                       ToSocket(rooms[emitted[i].data.roomCode].hostId)
                /\ emitted[i].data.hostToken =
                       rooms[emitted[i].data.roomCode].hostToken)

\* C29, its case: a player's session has just been restored in a room that
\* has a host token, while a question is running.
C29_PlayerRestored ==
    \E c \in DOMAIN rooms, i \in DOMAIN emitted :
        /\ emitted[i].ev = "session_restored"
        /\ emitted[i].data.role = "PLAYER"
        /\ emitted[i].data.roomCode = c
        /\ rooms[c].hostToken \in HostTokens
        /\ rooms[c].gameState = "QUESTION"
        /\ ~Exposes(emitted[i].data)

\* The PLAYER session_restored snapshots among the messages of the last
\* step that were taken while a question was running.
RunningSnapshots(msgs) ==
    {msgs[i].data : i \in {j \in DOMAIN msgs :
        /\ msgs[j].ev = "session_restored"
        /\ msgs[j].data.role = "PLAYER"
        /\ msgs[j].data.gameState = "QUESTION"}}

ExpiresIn(c) ==
    /\ InState(c, {"QUESTION"})
    /\ c \in DOMAIN rooms'
    /\ rooms'[c].gameState = "RESULT"
    /\ rooms'[c].answersReceived < Len(rooms'[c].players)
       \/ Len(rooms'[c].players) = 0

\* C31: every begun question ends: a room that is in QUESTION, and is
\* neither closed nor advanced by the host, leaves it for RESULT when the
\* interval callbacks keep running, after at most timeLimit firings (a live
\* countdown has between 1 and timeLimit seconds left), even when nobody
\* submits; the expiry leaves answersReceived as it was (0 when nobody
\* submitted) and cancels the countdown.
C31_QuestionEnds ==
    /\ \A c \in Codes : InState(c, {"QUESTION"}) ~> InState(c, {"RESULT"})
    /\ [](\A c \in DOMAIN rooms :
             /\ InState(c, {"QUESTION"}) => TimersOf(timers, c) = {rooms[c].timer}
             /\ \A h \in TimersOf(timers, c) :
                   /\ timers[h].timeRemaining >= 1
                   /\ timers[h].timeRemaining
                          <= TimeLimitOf(CurrentQuestion(rooms[c])))
    /\ [][\A c \in Codes :
             ExpiresIn(c)
                 => (/\ rooms'[c].answersReceived = rooms[c].answersReceived
                     /\ TimersOf(timers', c) = {}
                     /\ \A h \in TimersOf(timers, c) : timers[h].timeRemaining = 1
                     /\ "question_ended" \in SentToRoom(emitted', c))]_vars

\* C31, its case: the question of a room with two players has just ended
\* at the expiry of its countdown, nobody having submitted.
C31_EndedUnanswered ==
    \E c \in DOMAIN rooms :
        /\ rooms[c].gameState = "RESULT"
        /\ Len(rooms[c].players) = 2
        /\ rooms[c].answersReceived = 0
        /\ accepted[c].once = {}
        /\ "question_ended" \in SentToRoom(emitted, c)
        /\ TimersOf(timers, c) = {}

\* C32: a second submit_answer for the same question from a player whose
\* submitted flag is already set is silently dropped: no room changes
\* (score, streak, answersReceived, gameState), no interval changes, and
\* nothing is sent: no answer_received, no live_stats, no error.
C32_DuplicateDropped ==
    [][\A i \in SubmitInputs :
          (/\ InState(i[2], {"QUESTION"})
           /\ HasPlayer(rooms[i[2]], i[5])
           /\ PlayerOf(rooms[i[2]], i[5]).hasAnsweredThisRound
           /\ SubmitAnswer(i[1], i[2], i[3], i[4], i[5]))
              => (/\ rooms' = rooms
                  /\ timers' = timers
                  /\ emitted' = << >>)]_vars

\* C32, its case: a submission has just been dropped in a room whose two
\* players are both in the roster, one of them having answered the running
\* question already.
C32_Dropped ==
    \E c \in DOMAIN rooms :
        /\ ignored = "submit_answer"
        /\ rooms[c].gameState = "QUESTION"
        /\ Len(rooms[c].players) = Cardinality(PlayerIds)
        /\ rooms[c].answersReceived = 1
        /\ accepted[c].again = {}
        /\ \E k \in 1..Len(rooms[c].players) :
              /\ rooms[c].players[k].hasAnsweredThisRound
              /\ rooms[c].players[k].score > 0

\* The ids of a stored leaderboard are the whole roster, each id once, in
\* an order in which the scores never increase.
FullAndSorted(room) ==
    /\ Len(room.leaderboard) = Len(room.players)
    /\ {room.leaderboard[k] : k \in 1..Len(room.leaderboard)}
          = {room.players[k].id : k \in 1..Len(room.players)}
    /\ \A k \in 1..(Len(room.leaderboard) - 1) :
          PlayerOf(room, room.leaderboard[k]).score
              >= PlayerOf(room, room.leaderboard[k + 1]).score

\* C33: next_question by the current host increments currentQuestionIndex
\* by exactly 1; if the new index is below the number of questions the
\* room begins that question (QUESTION), otherwise the room becomes
\* FINISHED and the stored leaderboard is the full roster sorted by score,
\* highest first.
C33_NextQuestionAdvances ==
    [][\A s \in Sockets, c \in DOMAIN rooms :
          (rooms[c].hostId = s /\ NextQuestion(s, c))
              => (/\ c \in DOMAIN rooms'
                  /\ rooms'[c].currentQuestionIndex
                        = rooms[c].currentQuestionIndex + 1
                  /\ rooms'[c].quiz = rooms[c].quiz
                  /\ IF rooms'[c].currentQuestionIndex < Len(rooms'[c].quiz)
                     THEN rooms'[c].gameState = "QUESTION"
                     ELSE /\ rooms'[c].gameState = "FINISHED"
                          /\ FullAndSorted(rooms'[c]))]_vars

\* C33, its case: the host has just moved past the last question, and the
\* final standings put a player who joined later ahead of the first one.
C33_FinishedSorted ==
    \E c \in DOMAIN rooms :
        /\ rooms[c].gameState = "FINISHED"
        /\ rooms[c].currentQuestionIndex = Len(rooms[c].quiz)
        /\ "game_over" \in Sent(emitted)
        /\ Len(rooms[c].players) = 2
        /\ Len(rooms[c].leaderboard) = 2
        /\ rooms[c].leaderboard[1] # rooms[c].players[1].id

\* C34: immediately after a question begins (start_game, or next_question
\* within bounds), the room is in QUESTION, answersReceived is 0, every
\* player of the roster has its submitted flag false, the remaining-time
\* counter equals the question's time limit (20 when none is set), and no
\* player's score was changed by the step. The step is the one that sends
\* new_question_player to the room.
C34_QuestionBegins ==
    [][\A c \in DOMAIN rooms :
          "new_question_player" \in SentToRoom(emitted', c)
              => LET room == rooms'[c]
                     limit == room.quiz[room.currentQuestionIndex + 1].timeLimit
                 IN  /\ room.gameState = "QUESTION"
                     /\ room.answersReceived = 0
                     /\ \A k \in 1..Len(room.players) :
                           ~room.players[k].hasAnsweredThisRound
                     /\ room.timer \in DOMAIN timers'
                     /\ timers'[room.timer].code = c
                     /\ timers'[room.timer].timeRemaining
                           = IF limit = 0 THEN 20 ELSE limit
                     /\ Len(room.players) = Len(rooms[c].players)
                     /\ \A k \in 1..Len(room.players) :
                           /\ room.players[k].id = rooms[c].players[k].id
                           /\ room.players[k].score = rooms[c].players[k].score]_vars

\* C34, its case: the second question of a quiz without time limits has
\* just begun in a room of two players, one of whom scored on the first.
C34_BegunUntimed ==
    \E c \in DOMAIN rooms :
        /\ "new_question_player" \in SentToRoom(emitted, c)
        /\ rooms[c].currentQuestionIndex = 1
        /\ CurrentQuestion(rooms[c]).timeLimit = 0
        /\ rooms[c].timer \in DOMAIN timers
        /\ timers[rooms[c].timer].timeRemaining = DefaultTimeLimit
        /\ Len(rooms[c].players) = 2
        /\ \E k \in 1..2 : rooms[c].players[k].score > 0

\* C35: in every reachable state of a room with a non-empty question list,
\* 0 <= currentQuestionIndex <= number of questions, and
\* currentQuestionIndex < number of questions whenever gameState is
\* QUESTION or RESULT.
C35_IndexInRange ==
    \A c \in DOMAIN rooms :
        Len(rooms[c].quiz) > 0
            => (/\ 0 <= rooms[c].currentQuestionIndex
                /\ rooms[c].currentQuestionIndex <= Len(rooms[c].quiz)
                /\ rooms[c].gameState \in {"QUESTION", "RESULT"}
                       => rooms[c].currentQuestionIndex < Len(rooms[c].quiz))

\* The acknowledgments of a successful join among the messages
JoinSuccesses(msgs) ==
    {i \in DOMAIN msgs :
        msgs[i].ev = "join_room:ack" /\ "success" \in DOMAIN msgs[i].data}

\* C36: a successful join_room sends the updated player list
\* (player_joined) to the host's connection only, not to the room and not
\* to other players, and the list holds every player of the room, the one
\* who has just joined included.
C36_RosterToHostOnly ==
    /\ \A i \in DOMAIN emitted :
          emitted[i].ev = "player_joined"
              => (/\ JoinSuccesses(emitted) # {}
                  /\ emitted[i].to.kind = "socket"
                  /\ \E c \in DOMAIN rooms :
                        /\ emitted[i].to = ToSocket(rooms[c].hostId)
                        /\ emitted[i].data.players = rooms[c].players)
    /\ \A i \in JoinSuccesses(emitted) :
          /\ Len(emitted) = 2
          /\ emitted[1].ev = "player_joined"
          /\ \E k \in 1..Len(emitted[1].data.players) :
                emitted[1].data.players[k].socketId = emitted[i].to.id

\* C36, its case: a second player has just joined on a connection that is
\* not the host's, and the host is sent both players.
C36_SecondJoined ==
    \E c \in DOMAIN rooms :
        /\ JoinSuccesses(emitted) = {2}
        /\ emitted[2].to # ToSocket(rooms[c].hostId)
        /\ emitted[1].to = ToSocket(rooms[c].hostId)
        /\ Len(emitted[1].data.players) = 2
        /\ emitted[1].data.players[2].socketId = emitted[2].to.id

\* The last handler was a join_room that succeeded
JoinSucceeded(msgs) == JoinSuccesses(msgs) # {}

\* C37: a join_room by a stable id already in the room's players rebinds
\* the player's connection and name only: the player's score, streak and
\* submitted flag are the same after the re-join as before it, in every
\* gameState.
C37_RejoinKeepsProgress ==
    [][JoinSucceeded(emitted')
          => \A c \in DOMAIN rooms \cap DOMAIN rooms' :
                \A id \in PlayerIds :
                   (HasPlayer(rooms[c], id) /\ HasPlayer(rooms'[c], id))
                      => /\ PlayerOf(rooms'[c], id).score
                               = PlayerOf(rooms[c], id).score
                         /\ PlayerOf(rooms'[c], id).streak
                               = PlayerOf(rooms[c], id).streak
                         /\ PlayerOf(rooms'[c], id).hasAnsweredThisRound
                               = PlayerOf(rooms[c], id).hasAnsweredThisRound]_vars

\* The number of players of the room whose submitted flag is set
Submitted(room) ==
    Cardinality({k \in 1..Len(room.players) :
                    room.players[k].hasAnsweredThisRound})

\* C38: in every reachable state with gameState QUESTION, answersReceived
\* equals the number of players of the room whose submitted flag is true.
C38_TallyMatchesFlags ==
    \A c \in DOMAIN rooms :
        rooms[c].gameState = "QUESTION"
            => rooms[c].answersReceived = Submitted(rooms[c])

\* C39: no handler or timer callback dereferences a missing room or
\* question: whenever endQuestion runs, the room is in the registry and
\* currentQuestionIndex is below the number of questions.
C39_EndQuestionFindsQuestion ==
    [][\A h \in DOMAIN timers :
          (TimerTick(h) /\ Expired(Counted(timers[h])))
             => /\ timers[h].code \in DOMAIN rooms
                /\ HasQuestion(rooms[timers[h].code])
                /\ ~crashed']_vars

\* C40: a player's score changes only through an accepted submit_answer
\* while the room is in QUESTION, or by being set to 0 by reset_game;
\* no other event changes any score.
C40_ScoreChangesOnlyBySubmitOrReset ==
    [][\A c \in DOMAIN rooms \cap DOMAIN rooms' :
          \A id \in PlayerIds :
             (/\ HasPlayer(rooms[c], id)
              /\ HasPlayer(rooms'[c], id)
              /\ PlayerOf(rooms'[c], id).score # PlayerOf(rooms[c], id).score)
                => \/ /\ rooms[c].gameState = "QUESTION"
                      /\ \E i \in DOMAIN emitted' :
                            emitted'[i].ev = "answer_received"
                   \/ /\ PlayerOf(rooms'[c], id).score = 0
                      /\ \E i \in DOMAIN emitted' :
                            emitted'[i].ev = "game_reset"]_vars

=============================================================================
